---- MODULE Spec2Model ----
(***************************************************************************)
(* Angular constraints and joint limit helpers of bevy_xpbd.               *)
(*                                                                         *)
(* Scalars are exact rationals <<n, d>> (d > 0, lowest terms).  The code   *)
(* works in f32/f64; every input the model draws is a rational for which   *)
(* each value the code computes is again a rational (no rounding).         *)
(* Vectors are tuples of scalars: Vector has 2 components under feature    *)
(* "2d" and 3 under "3d", Vector3 always has 3.                            *)
(***************************************************************************)
EXTENDS Integers, Sequences, FiniteSets, TLC

VARIABLES feature, body1, body2, init_rot, impulse, calls, w, jargs, jres, phase

vars == <<feature, body1, body2, init_rot, impulse, calls, w, jargs, jres, phase>>

---------------------------------------------------------------------------
(* Bounds of the model *)

\* Scalar::EPSILON is modelled as 1 / EpsDen.
EpsDen == 4
\* inverse inertias are 0, 1 and MaxInertia
MaxInertia == 2
\* delta_lagrange is -MaxLagrange, -1, 0, 1 or one of the values around -EPSILON
MaxLagrange == 2
\* apply_angular_correction is called at most MaxCalls times on a pair
MaxCalls == 2
\* scaling factors 0 .. MaxScale of the inverse inertia
MaxScale == 2
\* distance limits are 0 .. MaxLimit, projection limits -MaxLimit .. MaxLimit
MaxLimit == 2
\* angle limits alpha, beta are the quarter turns -MaxAngle .. MaxAngle
MaxAngle == 2

---------------------------------------------------------------------------
(* Scalar arithmetic *)

Abs(n) == IF n < 0 THEN -n ELSE n

RECURSIVE GCD(_, _)
GCD(a, b) == IF b = 0 THEN a ELSE GCD(b, a % b)

\* the scalar n / d, d # 0, in lowest terms with a positive denominator
R(n, d) ==
    LET g == GCD(Abs(n), Abs(d))
        s == IF d < 0 THEN -1 ELSE 1
    IN  <<(s * n) \div g, Abs(d) \div g>>

Q(n) == <<n, 1>>
Zero == Q(0)
One == Q(1)
Half == R(1, 2)

RAdd(a, b) == R(a[1] * b[2] + b[1] * a[2], a[2] * b[2])
RNeg(a) == <<-a[1], a[2]>>
RSub(a, b) == RAdd(a, RNeg(b))
RMul(a, b) == R(a[1] * b[1], a[2] * b[2])
RDiv(a, b) == R(a[1] * b[2], a[2] * b[1])
RLt(a, b) == a[1] * b[2] < b[1] * a[2]
RLe(a, b) == a[1] * b[2] <= b[1] * a[2]
RGt(a, b) == RLt(b, a)
RGe(a, b) == RLe(b, a)

IsSquare(n) == \E k \in 0..n : k * k = n
ISqrt(n) == CHOOSE k \in 0..n : k * k <= n /\ (k + 1) * (k + 1) > n
\* a >= 0 has a rational square root
HasSqrt(a) == IsSquare(a[1]) /\ IsSquare(a[2])
RSqrt(a) == <<ISqrt(a[1]), ISqrt(a[2])>>

EPSILON == R(1, EpsDen)

---------------------------------------------------------------------------
(* Vector arithmetic (glam) *)

RECURSIVE RSum(_, _)
RSum(s, i) == IF i = 0 THEN Zero ELSE RAdd(RSum(s, i - 1), s[i])

VZero(n) == [i \in 1..n |-> Zero]
VAdd(a, b) == [i \in DOMAIN a |-> RAdd(a[i], b[i])]
VSub(a, b) == [i \in DOMAIN a |-> RSub(a[i], b[i])]
VNeg(a) == [i \in DOMAIN a |-> RNeg(a[i])]
VScale(a, s) == [i \in DOMAIN a |-> RMul(a[i], s)]
VDivS(a, s) == [i \in DOMAIN a |-> RDiv(a[i], s)]
VDot(a, b) == RSum([i \in DOMAIN a |-> RMul(a[i], b[i])], Len(a))
VLen2(a) == VDot(a, a)
VLength(a) == RSqrt(VLen2(a))
VCross(a, b) ==
    << RSub(RMul(a[2], b[3]), RMul(a[3], b[2])),
       RSub(RMul(a[3], b[1]), RMul(a[1], b[3])),
       RSub(RMul(a[1], b[2]), RMul(a[2], b[1])) >>
\* a vector of integers
V2(x, y) == <<Q(x), Q(y)>>
V3(x, y, z) == <<Q(x), Q(y), Q(z)>>

---------------------------------------------------------------------------
(* Rigid body state (RigidBodyQueryItem) *)

RigidBodyKinds == {"Dynamic", "Static", "Kinematic"}

\* RigidBody::is_dynamic
is_dynamic(body) == body.rb = "Dynamic"

\* 2d: Rot is a signed angle.  Rot::from_radians
from_radians(radians) == [radians |-> radians]
\* 2d: Rot + Rot, Rot - Rot
RotAdd2(a, b) == [radians |-> RAdd(a.radians, b.radians)]
RotSub2(a, b) == [radians |-> RSub(a.radians, b.radians)]

\* 3d: Rot is a quaternion <<x, y, z, w>>, added and subtracted by component
RotAdd3(a, b) == VAdd(a, b)
RotSub3(a, b) == VSub(a, b)
\* Quaternion::from_vec4(v.extend(0.0))
from_vec4_extend0(v) == <<v[1], v[2], v[3], Zero>>
\* Quaternion * Quaternion (Hamilton product)
QuatMul(a, b) ==
    << RAdd(RAdd(RMul(a[4], b[1]), RMul(a[1], b[4])),
            RSub(RMul(a[2], b[3]), RMul(a[3], b[2]))),
       RAdd(RAdd(RMul(a[4], b[2]), RMul(a[2], b[4])),
            RSub(RMul(a[3], b[1]), RMul(a[1], b[3]))),
       RAdd(RAdd(RMul(a[4], b[3]), RMul(a[3], b[4])),
            RSub(RMul(a[1], b[2]), RMul(a[2], b[1]))),
       RSub(RMul(a[4], b[4]),
            RAdd(RAdd(RMul(a[1], b[1]), RMul(a[2], b[2])), RMul(a[3], b[3]))) >>
QuatIdentity == <<Zero, Zero, Zero, One>>

\* The inverse inertia of a body: a scalar in 2d; in 3d the tensor k * Identity,
\* held as k, which is the same in the local and in the world frame.
world_inv_inertia(body) == body.inv_inertia
\* Matrix3 * Vector for the tensor k * Identity
MatMulVec(k, v) == VScale(v, k)

---------------------------------------------------------------------------
(* AngularConstraint *)

\* get_delta_rot (2d) with the inverse inertia left out
get_delta_rot_2d_no_inertia(rot, inv_inertia, p) == from_radians(p)

\* get_delta_rot, 2d
get_delta_rot_2d(rot, inv_inertia, p) == from_radians(RMul(inv_inertia, p))

\* get_delta_rot, 3d
get_delta_rot_3d(rot, inv_inertia, p) ==
    QuatMul(from_vec4_extend0(VScale(MatMulVec(inv_inertia, p), Half)), rot)

\* the body pair after a non-skipped 2d correction by the impulse p
corrected_2d(b1, b2, p) ==
    [body1 |-> IF is_dynamic(b1)
               THEN [b1 EXCEPT !.rot = RotAdd2(b1.rot, from_radians(RMul(b1.inv_inertia, p)))]
               ELSE b1,
     body2 |-> IF is_dynamic(b2)
               THEN [b2 EXCEPT !.rot = RotSub2(b2.rot, from_radians(RMul(b2.inv_inertia, p)))]
               ELSE b2]

\* apply_angular_correction (2d) skipping only when delta_lagrange > -EPSILON
apply_angular_correction_2d_strict_skip(b1, b2, delta_lagrange, axis) ==
    IF RGt(delta_lagrange, RNeg(EPSILON))
    THEN [body1 |-> b1, body2 |-> b2, ret |-> Zero]
    ELSE LET p == RMul(RNeg(delta_lagrange), axis[3])
             c == corrected_2d(b1, b2, p)
         IN  [body1 |-> c.body1, body2 |-> c.body2, ret |-> p]

\* apply_angular_correction (2d) returning -delta_lagrange, without axis.z
apply_angular_correction_2d_unsigned_return(b1, b2, delta_lagrange, axis) ==
    IF RGe(delta_lagrange, RNeg(EPSILON))
    THEN [body1 |-> b1, body2 |-> b2, ret |-> Zero]
    ELSE LET p == RMul(RNeg(delta_lagrange), axis[3])
             c == corrected_2d(b1, b2, p)
         IN  [body1 |-> c.body1, body2 |-> c.body2, ret |-> RNeg(delta_lagrange)]

\* apply_angular_correction (2d) adding the rotation to body2 as well
apply_angular_correction_2d_same_sign(b1, b2, delta_lagrange, axis) ==
    IF RGe(delta_lagrange, RNeg(EPSILON))
    THEN [body1 |-> b1, body2 |-> b2, ret |-> Zero]
    ELSE LET p == RMul(RNeg(delta_lagrange), axis[3])
             c == corrected_2d(b1, b2, p)
         IN  [body1 |-> c.body1,
              body2 |-> IF is_dynamic(b2)
                        THEN [b2 EXCEPT !.rot = RotAdd2(b2.rot,
                                  from_radians(RMul(b2.inv_inertia, p)))]
                        ELSE b2,
              ret |-> p]

\* apply_angular_correction, 2d: the two bodies after the call and the value returned
apply_angular_correction_2d(b1, b2, delta_lagrange, axis) ==
    IF RGe(delta_lagrange, RNeg(EPSILON))
    THEN [body1 |-> b1, body2 |-> b2, ret |-> Zero]
    ELSE
        LET p == RMul(RNeg(delta_lagrange), axis[3])
            rot1 == b1.rot
            rot2 == b2.rot
            inv_inertia1 == world_inv_inertia(b1)
            inv_inertia2 == world_inv_inertia(b2)
            n1 == IF is_dynamic(b1)
                  THEN [b1 EXCEPT !.rot = RotAdd2(b1.rot, get_delta_rot_2d(rot1, inv_inertia1, p))]
                  ELSE b1
            n2 == IF is_dynamic(b2)
                  THEN [b2 EXCEPT !.rot = RotSub2(b2.rot, get_delta_rot_2d(rot2, inv_inertia2, p))]
                  ELSE b2
        IN  [body1 |-> n1, body2 |-> n2, ret |-> p]

\* apply_angular_correction (3d) rotating body2 whatever its motion type
apply_angular_correction_3d_unchecked_body2(b1, b2, delta_lagrange, axis) ==
    IF RGe(delta_lagrange, RNeg(EPSILON))
    THEN [body1 |-> b1, body2 |-> b2, ret |-> VZero(3)]
    ELSE
        LET p == VScale(axis, RNeg(delta_lagrange))
            n1 == IF is_dynamic(b1)
                  THEN [b1 EXCEPT !.rot = RotAdd3(b1.rot,
                            get_delta_rot_3d(b1.rot, world_inv_inertia(b1), p))]
                  ELSE b1
            n2 == [b2 EXCEPT !.rot = RotSub3(b2.rot,
                            get_delta_rot_3d(b2.rot, world_inv_inertia(b2), p))]
        IN  [body1 |-> n1, body2 |-> n2, ret |-> p]

\* apply_angular_correction, 3d
apply_angular_correction_3d(b1, b2, delta_lagrange, axis) ==
    IF RGe(delta_lagrange, RNeg(EPSILON))
    THEN [body1 |-> b1, body2 |-> b2, ret |-> VZero(3)]
    ELSE
        LET p == VScale(axis, RNeg(delta_lagrange))
            rot1 == b1.rot
            rot2 == b2.rot
            inv_inertia1 == world_inv_inertia(b1)
            inv_inertia2 == world_inv_inertia(b2)
            n1 == IF is_dynamic(b1)
                  THEN [b1 EXCEPT !.rot = RotAdd3(b1.rot, get_delta_rot_3d(rot1, inv_inertia1, p))]
                  ELSE b1
            n2 == IF is_dynamic(b2)
                  THEN [b2 EXCEPT !.rot = RotSub3(b2.rot, get_delta_rot_3d(rot2, inv_inertia2, p))]
                  ELSE b2
        IN  [body1 |-> n1, body2 |-> n2, ret |-> p]

\* compute_generalized_inverse_mass, 2d (axis is a Vector3, the inertia a scalar)
compute_generalized_inverse_mass_2d(body, axis) ==
    IF is_dynamic(body)
    THEN VDot(axis, VScale(axis, body.inv_inertia))
    ELSE Zero

\* compute_generalized_inverse_mass (3d) without the test of the motion type
compute_generalized_inverse_mass_3d_any_body(body, axis) ==
    VDot(axis, MatMulVec(world_inv_inertia(body), axis))

\* compute_generalized_inverse_mass, 3d
compute_generalized_inverse_mass_3d(body, axis) ==
    IF is_dynamic(body)
    THEN VDot(axis, MatMulVec(world_inv_inertia(body), axis))
    ELSE Zero

---------------------------------------------------------------------------
(* Inputs *)

Features == {"2d", "3d"}

InvInertias == {Zero, One, Q(MaxInertia)}

\* initial rotations: 2d angles, 3d the identity quaternion
InitRots(f) ==
    IF f = "2d" THEN {from_radians(Zero), from_radians(One)}
    ELSE {QuatIdentity}

Bodies(f) ==
    [rb : RigidBodyKinds, rot : InitRots(f), inv_inertia : InvInertias]

\* delta_lagrange: -MaxLagrange, -1, 0, 1, -EPSILON and -3/2 EPSILON
Lagranges ==
    {Q(-MaxLagrange), Q(-1), Zero, One, RNeg(EPSILON), R(-3, 2 * EpsDen)}

\* 2d: "axis is a unit vector with the Z coordinate set to 1 or -1"
Axes2d == {V3(0, 0, 1), V3(0, 0, -1)}
\* 3d: a Vector whose magnitude encodes the strength of the correction
Axes3d == {V3(1, 0, 0), V3(0, 1, -1)}
\* axes of compute_generalized_inverse_mass
MassAxes == Axes2d \cup Axes3d \cup {V3(0, 0, 0), V3(1, -2, 2)}

ZeroImpulse(f) == IF f = "2d" THEN Zero ELSE VZero(3)

NoMass == [set |-> FALSE, body |-> 0, axis |-> VZero(3), value |-> Zero]
NoJoint == [op |-> "none"]

---------------------------------------------------------------------------
(* The angular solver: a pair of bodies corrected by a sequence of calls *)

InitAngular ==
    /\ feature \in Features
    /\ body1 \in Bodies(feature)
    /\ body2 \in Bodies(feature)
    /\ init_rot = <<body1.rot, body2.rot>>
    /\ impulse = ZeroImpulse(feature)
    /\ calls = 0
    /\ w = NoMass
    /\ jargs = NoJoint
    /\ jres = NoJoint
    /\ phase = "solve"

ApplyAngularCorrection2d(delta_lagrange, axis) ==
    /\ feature = "2d"
    /\ calls < MaxCalls
    /\ \E r \in {apply_angular_correction_2d(body1, body2, delta_lagrange, axis)} :
           /\ impulse' = r.ret
           /\ body1' = r.body1
           /\ body2' = r.body2
    /\ calls' = calls + 1
    /\ UNCHANGED <<feature, init_rot, w, jargs, jres, phase>>

ApplyAngularCorrection3d(delta_lagrange, axis) ==
    /\ feature = "3d"
    /\ calls < MaxCalls
    /\ \E r \in {apply_angular_correction_3d(body1, body2, delta_lagrange, axis)} :
           /\ impulse' = r.ret
           /\ body1' = r.body1
           /\ body2' = r.body2
    /\ calls' = calls + 1
    /\ UNCHANGED <<feature, init_rot, w, jargs, jres, phase>>

NextAngular ==
    \/ \E d \in Lagranges, axis \in Axes2d : ApplyAngularCorrection2d(d, axis)
    \/ \E d \in Lagranges, axis \in Axes3d : ApplyAngularCorrection3d(d, axis)

SpecAngular == InitAngular /\ [][NextAngular]_vars

---------------------------------------------------------------------------
(* compute_generalized_inverse_mass applied to one of two bodies *)

InitMass ==
    /\ feature \in Features
    /\ body1 \in Bodies(feature)
    /\ body2 \in Bodies(feature)
    /\ init_rot = <<body1.rot, body2.rot>>
    /\ impulse = ZeroImpulse(feature)
    /\ calls = 0
    /\ w = NoMass
    /\ jargs = NoJoint
    /\ jres = NoJoint
    /\ phase = "mass"

compute_generalized_inverse_mass(f, body, axis) ==
    IF f = "2d" THEN compute_generalized_inverse_mass_2d(body, axis)
    ELSE compute_generalized_inverse_mass_3d(body, axis)

ComputeGeneralizedInverseMass(b, axis) ==
    /\ ~w.set
    /\ w' = [set |-> TRUE, body |-> b, axis |-> axis,
             value |-> compute_generalized_inverse_mass(
                           feature, IF b = 1 THEN body1 ELSE body2, axis)]
    /\ UNCHANGED <<feature, body1, body2, init_rot, impulse, calls, jargs, jres, phase>>

NextMass == \E b \in {1, 2}, axis \in MassAxes : ComputeGeneralizedInverseMass(b, axis)

SpecMass == InitMass /\ [][NextMass]_vars

---------------------------------------------------------------------------
(* Properties of the angular solver *)

Skipped(delta_lagrange) == RGe(delta_lagrange, RNeg(EPSILON))

RotsUnchanged == body1'.rot = body1.rot /\ body2'.rot = body2.rot

\* C1: whenever delta_lagrange >= -EPSILON (0 and positive values included), a call
\* of apply_angular_correction returns a zero impulse and leaves the rotation of
\* body1 and of body2 as it was before the call, for every pair of motion types
\* and every axis, in 2d and in 3d.
C1_SkipRule ==
    [][\A d \in Lagranges :
         Skipped(d) =>
           /\ \A axis \in Axes2d :
                ApplyAngularCorrection2d(d, axis) => impulse' = Zero /\ RotsUnchanged
           /\ \A axis \in Axes3d :
                ApplyAngularCorrection3d(d, axis) => impulse' = VZero(3) /\ RotsUnchanged
      ]_vars

\* a first call was skipped with delta_lagrange = -EPSILON exactly: it is enabled
\* only in the initial state, and it leaves a zero impulse and the initial rotations
C1_Witness ==
    /\ calls = 1
    /\ impulse = ZeroImpulse(feature)
    /\ <<body1.rot, body2.rot>> = init_rot
    /\ is_dynamic(body1) /\ is_dynamic(body2)
    /\ body1.inv_inertia = Q(1) /\ body2.inv_inertia = Q(1)

\* C2: a 2d call with delta_lagrange < -EPSILON, axis.z in {1, -1} and two Dynamic
\* bodies returns p = -delta_lagrange * axis.z, adds inverse_inertia(body1) * p to
\* body1's rotation and subtracts inverse_inertia(body2) * p from body2's; with
\* equal inverse inertias the two changes are opposite.  delta_lagrange = -1,
\* axis.z = 1, inverse inertia 2: impulse 1, body1 +2 rad, body2 -2 rad.
C2_Effect2d ==
    [][\A d \in Lagranges, axis \in Axes2d :
         (/\ ~Skipped(d)
          /\ is_dynamic(body1) /\ is_dynamic(body2)
          /\ ApplyAngularCorrection2d(d, axis))
         =>
           LET p == RMul(RNeg(d), axis[3])
               d1 == RSub(body1'.rot.radians, body1.rot.radians)
               d2 == RSub(body2'.rot.radians, body2.rot.radians)
           IN  /\ impulse' = p
               /\ d1 = RMul(body1.inv_inertia, p)
               /\ d2 = RNeg(RMul(body2.inv_inertia, p))
               /\ (body1.inv_inertia = body2.inv_inertia => d1 = RNeg(d2))
               /\ (d = Q(-1) /\ axis = V3(0, 0, 1)
                   /\ body1.inv_inertia = Q(2) /\ body2.inv_inertia = Q(2))
                  => (impulse' = Q(1) /\ d1 = Q(2) /\ d2 = Q(-2))
      ]_vars

\* the example of the spec after its single call
C2_Witness ==
    /\ feature = "2d" /\ calls = 1
    /\ is_dynamic(body1) /\ is_dynamic(body2)
    /\ body1.inv_inertia = Q(2) /\ body2.inv_inertia = Q(2)
    /\ impulse = Q(1)
    /\ body1.rot.radians = RAdd(init_rot[1].radians, Q(2))
    /\ body2.rot.radians = RSub(init_rot[2].radians, Q(2))

\* C3: the rotation of a Static or Kinematic body equals its initial rotation after
\* any sequence of calls, as body1 or as body2, whatever its stored inverse inertia.
C3_StaticNeverRotated ==
    /\ ~is_dynamic(body1) => body1.rot = init_rot[1]
    /\ ~is_dynamic(body2) => body2.rot = init_rot[2]

\* a Kinematic body with a non-zero inverse inertia, after two calls that rotated
\* the Dynamic body it is paired with
C3_Witness ==
    /\ calls = 2
    /\ body1.rb = "Kinematic" /\ body1.inv_inertia = Q(2)
    /\ body1.rot = init_rot[1]
    /\ is_dynamic(body2) /\ body2.rot # init_rot[2]
    /\ impulse # ZeroImpulse(feature)

C10_Conservation2d ==
    (feature = "2d" /\ is_dynamic(body1) /\ is_dynamic(body2)) =>
        RAdd(RMul(body2.inv_inertia, RSub(body1.rot.radians, init_rot[1].radians)),
             RMul(body1.inv_inertia, RSub(body2.rot.radians, init_rot[2].radians)))
        = Zero

\* two calls, the last one not skipped, on Dynamic bodies of different non-zero
\* inverse inertias, both rotated
C10_Witness ==
    /\ feature = "2d" /\ calls = 2
    /\ is_dynamic(body1) /\ is_dynamic(body2)
    /\ body1.inv_inertia = Q(1) /\ body2.inv_inertia = Q(2)
    /\ body1.rot # init_rot[1] /\ body2.rot # init_rot[2]
    /\ impulse # Zero

---------------------------------------------------------------------------
(* Properties of compute_generalized_inverse_mass *)

MassBody == IF w.body = 1 THEN body1 ELSE body2

\* C5: compute_generalized_inverse_mass is exactly 0 for a Static or Kinematic body,
\* whatever its stored inverse inertia and the axis; for a Dynamic body it is
\* axis . (inverse_inertia * axis), which is non-negative for a non-negative
\* inverse inertia and scales by k when the inverse inertia is scaled by k.
C5_GeneralizedInverseMass ==
    w.set =>
      /\ ~is_dynamic(MassBody) => w.value = Zero
      /\ is_dynamic(MassBody) =>
           /\ w.value = RMul(MassBody.inv_inertia, VLen2(w.axis))
           /\ RGe(w.value, Zero)
           /\ \A k \in 0..MaxScale :
                compute_generalized_inverse_mass(
                    feature,
                    [MassBody EXCEPT !.inv_inertia = RMul(Q(k), MassBody.inv_inertia)],
                    w.axis)
                = RMul(Q(k), w.value)

\* the function was applied to a Dynamic body of inverse inertia 2 along the
\* axis (1, -2, 2): 2 * 9 = 18
C5_Witness ==
    /\ w.set /\ w.axis = V3(1, -2, 2)
    /\ is_dynamic(MassBody) /\ MassBody.inv_inertia = Q(2)
    /\ w.value = Q(18)

---------------------------------------------------------------------------
(* Joint: the limit helpers *)

\* limit_distance returning zero only when distance < EPSILON
limit_distance_strict_epsilon(min, max, r1, r2, pos1, pos2) ==
    LET pos_offset == VSub(VAdd(pos2, r2), VAdd(pos1, r1))
        distance == VLength(pos_offset)
    IN  IF RLt(distance, EPSILON) THEN VZero(Len(pos_offset))
        ELSE IF RLt(distance, min)
             THEN VScale(VDivS(VNeg(pos_offset), distance), RSub(distance, min))
        ELSE IF RGt(distance, max)
             THEN VScale(VDivS(VNeg(pos_offset), distance), RSub(distance, max))
        ELSE VZero(Len(pos_offset))

\* limit_distance without the negation of pos_offset
limit_distance_not_negated(min, max, r1, r2, pos1, pos2) ==
    LET pos_offset == VSub(VAdd(pos2, r2), VAdd(pos1, r1))
        distance == VLength(pos_offset)
    IN  IF RLe(distance, EPSILON) THEN VZero(Len(pos_offset))
        ELSE IF RLt(distance, min)
             THEN VScale(VDivS(pos_offset, distance), RSub(distance, min))
        ELSE IF RGt(distance, max)
             THEN VScale(VDivS(pos_offset, distance), RSub(distance, max))
        ELSE VZero(Len(pos_offset))

\* limit_distance
limit_distance(min, max, r1, r2, pos1, pos2) ==
    LET pos_offset == VSub(VAdd(pos2, r2), VAdd(pos1, r1))
        distance == VLength(pos_offset)
    IN  IF RLe(distance, EPSILON) THEN VZero(Len(pos_offset))
        ELSE IF RLt(distance, min)
             THEN VScale(VDivS(VNeg(pos_offset), distance), RSub(distance, min))
        ELSE IF RGt(distance, max)
             THEN VScale(VDivS(VNeg(pos_offset), distance), RSub(distance, max))
        ELSE VZero(Len(pos_offset))

\* limit_distance_along_axis using min in the upper limit as well
limit_distance_along_axis_min_twice(min, max, axis, r1, r2, pos1, pos2) ==
    LET pos_offset == VSub(VAdd(pos2, r2), VAdd(pos1, r1))
        a == VDot(pos_offset, axis)
    IN  IF RLt(a, min) THEN VScale(VNeg(axis), RSub(a, min))
        ELSE IF RGt(a, max) THEN VScale(VNeg(axis), RSub(a, min))
        ELSE VZero(Len(pos_offset))

\* limit_distance_along_axis
limit_distance_along_axis(min, max, axis, r1, r2, pos1, pos2) ==
    LET pos_offset == VSub(VAdd(pos2, r2), VAdd(pos1, r1))
        a == VDot(pos_offset, axis)
    IN  IF RLt(a, min) THEN VScale(VNeg(axis), RSub(a, min))
        ELSE IF RGt(a, max) THEN VScale(VNeg(axis), RSub(a, max))
        ELSE VZero(Len(pos_offset))

\* Angles are held in half turns: the scalar q stands for q * PI radians, and the
\* angles the model meets are whole numbers of quarter turns.
PI == One

\* Scalar::asin, at the sines whose angle is a whole number of quarter turns
asin(x) == CASE x = Q(-1) -> RNeg(Half)
             [] x = Zero -> Zero
             [] x = One -> Half

\* the number of quarter turns in phi, 0 .. 3
Quarters(phi) == (RMul(Q(2), phi)[1]) % 4

\* Scalar::cos and Scalar::sin of a whole number of quarter turns
QuarterCos(phi) == CASE Quarters(phi) = 0 -> One
                     [] Quarters(phi) = 2 -> Q(-1)
                     [] OTHER -> Zero
QuarterSin(phi) == CASE Quarters(phi) = 1 -> One
                     [] Quarters(phi) = 3 -> Q(-1)
                     [] OTHER -> Zero

\* Quaternion::from_axis_angle(n, phi).mul_vec3(v): v turned by phi about the unit
\* axis n (Rodrigues' formula)
from_axis_angle_mul_vec3(n, phi, v) ==
    VAdd(VAdd(VScale(v, QuarterCos(phi)),
              VScale(VCross(n, v), QuarterSin(phi))),
         VScale(n, RMul(VDot(n, v), RSub(One, QuarterCos(phi)))))

\* Scalar::clamp(lo, hi) panics when lo > hi
clamp_panics(lo, hi) == RGt(lo, hi)
\* Scalar::clamp(lo, hi) otherwise
clamp(x, lo, hi) == IF RLt(x, lo) THEN lo ELSE IF RGt(x, hi) THEN hi ELSE x

NoneAngle == [kind |-> "None", value |-> VZero(3)]
PanicAngle == [kind |-> "Panic", value |-> VZero(3)]
SomeAngle(v) == [kind |-> "Some", value |-> v]

\* the angle measured by limit_angle, after the flip and the wraps
limit_angle_phi(n, n1, n2) ==
    LET phi0 == asin(VDot(VCross(n1, n2), n))
        phi1 == IF RLt(VDot(n1, n2), Zero) THEN RSub(PI, phi0) ELSE phi0
        phi2 == IF RGt(phi1, PI) THEN RSub(phi1, RMul(Q(2), PI)) ELSE phi1
        phi3 == IF RLt(phi2, RNeg(PI)) THEN RAdd(phi2, RMul(Q(2), PI)) ELSE phi2
    IN  phi3

\* the correction of limit_angle before it is capped
limit_angle_omega(n, n1, n2, alpha, beta) ==
    VCross(from_axis_angle_mul_vec3(n, clamp(limit_angle_phi(n, n1, n2), alpha, beta), n1),
           n2)

\* limit_angle without the cap at max_correction
limit_angle_uncapped(n, n1, n2, alpha, beta, max_correction) ==
    LET phi == limit_angle_phi(n, n1, n2)
    IN  IF RLt(phi, alpha) \/ RGt(phi, beta)
        THEN IF clamp_panics(alpha, beta) THEN PanicAngle
             ELSE SomeAngle(limit_angle_omega(n, n1, n2, alpha, beta))
        ELSE NoneAngle

\* limit_angle
limit_angle(n, n1, n2, alpha, beta, max_correction) ==
    LET phi == limit_angle_phi(n, n1, n2)
    IN  IF RLt(phi, alpha) \/ RGt(phi, beta)
        THEN IF clamp_panics(alpha, beta) THEN PanicAngle
             ELSE LET omega == limit_angle_omega(n, n1, n2, alpha, beta)
                      len == VLength(omega)
                  IN  IF RGt(len, max_correction)
                      THEN SomeAngle(VScale(omega, RDiv(max_correction, len)))
                      ELSE SomeAngle(omega)
        ELSE NoneAngle

---------------------------------------------------------------------------
(* Inputs of the limit helpers *)

Dim(f) == IF f = "2d" THEN 2 ELSE 3

\* unit directions
Dirs(f) ==
    IF f = "2d" THEN {V2(1, 0), V2(0, -1), <<R(-3, 5), R(4, 5)>>}
    ELSE {V3(0, 0, 1), <<R(1, 3), R(-2, 3), R(2, 3)>>}

\* separations: the halves up to MaxLimit + 1, EPSILON and 3/2 EPSILON
Separations ==
    {R(k, 2) : k \in 0..(2 * MaxLimit + 2)} \cup {EPSILON, R(3, 2 * EpsDen)}

\* anchor offsets in both directions along the unit directions
Offsets(f) ==
    {VScale(d, l) : d \in Dirs(f), l \in Separations \cup {RNeg(x) : x \in Separations}}

\* (pos1, r1, r2)
Anchors(f) ==
    IF f = "2d" THEN {<<V2(0, 0), V2(0, 0), V2(0, 0)>>, <<V2(1, 0), V2(0, 1), V2(-1, 2)>>}
    ELSE {<<V3(0, 0, 0), V3(0, 0, 0), V3(0, 0, 0)>>,
          <<V3(1, 0, 0), V3(0, 1, 0), V3(-1, 2, 1)>>}

\* distance limits, 0 <= min <= max
DistanceLimits ==
    {<<Q(l[1]), Q(l[2])>> : l \in {x \in (0..MaxLimit) \X (0..MaxLimit) : x[1] <= x[2]}}

\* limits of a projection, min <= max
ProjectionLimits ==
    {<<Q(l[1]), Q(l[2])>> :
        l \in {x \in (-MaxLimit..MaxLimit) \X (-MaxLimit..MaxLimit) : x[1] <= x[2]}}

\* the inputs of limit_distance: pos2 is placed so that the anchors are o apart
\* (start keeps the pos2 the joint started from; limit_distance takes no axis)
DistanceInputs(f) ==
    {[op |-> "limit_distance", min |-> l[1], max |-> l[2], axis |-> VZero(Dim(f)),
      r1 |-> a[2], r2 |-> a[3], pos1 |-> a[1],
      pos2 |-> VSub(VAdd(o, VAdd(a[1], a[2])), a[3]),
      start |-> VSub(VAdd(o, VAdd(a[1], a[2])), a[3])] :
        l \in DistanceLimits, a \in Anchors(f),
        o \in {VScale(d, x) : d \in Dirs(f), x \in Separations}}

\* axes of limit_distance_along_axis: non-zero, unit or not
AlongAxes(f) ==
    IF f = "2d" THEN {V2(1, 0), <<R(-3, 5), R(4, 5)>>, V2(1, 1)}
    ELSE {V3(0, 0, 1), <<R(1, 3), R(-2, 3), R(2, 3)>>, V3(0, -2, 0)}

\* the inputs of limit_distance_along_axis
AxisInputs(f) ==
    {[op |-> "limit_distance_along_axis", min |-> l[1], max |-> l[2], axis |-> x,
      r1 |-> a[2], r2 |-> a[3], pos1 |-> a[1],
      pos2 |-> VSub(VAdd(o, VAdd(a[1], a[2])), a[3]),
      start |-> VSub(VAdd(o, VAdd(a[1], a[2])), a[3])] :
        l \in ProjectionLimits, x \in AlongAxes(f), a \in Anchors(f), o \in Offsets(f)}

\* the common rotation axis n: unit
AngleAxes == {V3(0, 0, 1), V3(0, 0, -1), V3(1, 0, 0)}
\* the reference axes n1 and n2: unit, and two of length sqrt(2)
AngleN1 == {V3(1, 0, 0), V3(0, 1, 0), V3(-1, 0, 0), V3(0, 0, 1)}
AngleN2 == {V3(1, 0, 0), V3(0, 1, 0), V3(-1, 0, 0), V3(0, -1, 0),
            V3(-1, -1, 0), V3(-1, 1, 0)}
AngleLimits == {R(k, 2) : k \in -MaxAngle..MaxAngle}
MaxCorrections == {Zero, Half, One, Q(2)}

\* the inputs of limit_angle for which asin and every length taken are rational
AngleInputs ==
    {i \in [n : AngleAxes, n1 : AngleN1, n2 : AngleN2, alpha : AngleLimits,
            beta : AngleLimits, max_correction : MaxCorrections] :
        /\ VDot(VCross(i.n1, i.n2), i.n) \in {Q(-1), Zero, One}
        /\ LET phi == limit_angle_phi(i.n, i.n1, i.n2)
           IN  ((RLt(phi, i.alpha) \/ RGt(phi, i.beta)) /\ ~clamp_panics(i.alpha, i.beta))
               => HasSqrt(VLen2(limit_angle_omega(i.n, i.n1, i.n2, i.alpha, i.beta)))}

\* the pair of bodies a joint connects while a limit helper is exercised
RestBody(f) == CHOOSE b \in Bodies(f) : is_dynamic(b) /\ b.inv_inertia = One

IdleAngular ==
    /\ body1 = RestBody(feature)
    /\ body2 = RestBody(feature)
    /\ init_rot = <<body1.rot, body2.rot>>
    /\ impulse = ZeroImpulse(feature)
    /\ calls = 0
    /\ w = NoMass

---------------------------------------------------------------------------
(* limit_distance and limit_distance_along_axis: the helper is called, its      *)
(* correction is added to the anchor offset, and the helper is called again.    *)

InitLimit ==
    /\ feature \in Features
    /\ IdleAngular
    /\ jargs \in DistanceInputs(feature) \cup AxisInputs(feature)
    /\ jres = VZero(Dim(feature))
    /\ phase = "input"

LimitDistance ==
    /\ jargs.op = "limit_distance"
    /\ phase \in {"input", "corrected"}
    /\ jres' = limit_distance(jargs.min, jargs.max, jargs.r1, jargs.r2,
                              jargs.pos1, jargs.pos2)
    /\ phase' = IF phase = "input" THEN "limited" ELSE "relimited"
    /\ UNCHANGED <<feature, body1, body2, init_rot, impulse, calls, w, jargs>>

LimitDistanceAlongAxis ==
    /\ jargs.op = "limit_distance_along_axis"
    /\ phase \in {"input", "corrected"}
    /\ jres' = limit_distance_along_axis(jargs.min, jargs.max, jargs.axis, jargs.r1,
                                         jargs.r2, jargs.pos1, jargs.pos2)
    /\ phase' = IF phase = "input" THEN "limited" ELSE "relimited"
    /\ UNCHANGED <<feature, body1, body2, init_rot, impulse, calls, w, jargs>>

\* the correction returned is added to the anchor offset (body2 is moved by it)
ApplyCorrection ==
    /\ phase = "limited"
    /\ jargs' = [jargs EXCEPT !.pos2 = VAdd(@, jres)]
    /\ phase' = "corrected"
    /\ UNCHANGED <<feature, body1, body2, init_rot, impulse, calls, w, jres>>

NextLimit == LimitDistance \/ LimitDistanceAlongAxis \/ ApplyCorrection

SpecLimit == InitLimit /\ [][NextLimit]_vars

---------------------------------------------------------------------------
(* limit_angle *)

InitAngle ==
    /\ feature \in Features
    /\ IdleAngular
    /\ jargs \in AngleInputs
    /\ jres = NoneAngle
    /\ phase = "input"

LimitAngle ==
    /\ phase = "input"
    /\ jres' = limit_angle(jargs.n, jargs.n1, jargs.n2, jargs.alpha, jargs.beta,
                           jargs.max_correction)
    /\ phase' = "limited"
    /\ UNCHANGED <<feature, body1, body2, init_rot, impulse, calls, w, jargs>>

NextAngle == LimitAngle

SpecAngle == InitAngle /\ [][NextAngle]_vars

---------------------------------------------------------------------------
(* Properties of the limit helpers *)

\* the anchor offset (pos2 + r2) - (pos1 + r1) of the arguments j
OffsetOf(j) == VSub(VAdd(j.pos2, j.r2), VAdd(j.pos1, j.r1))
StartOffset(j) == VSub(VAdd(j.start, j.r2), VAdd(j.pos1, j.r1))
Called == phase \in {"limited", "relimited"}
InRange(x, min, max) == RLe(min, x) /\ RLe(x, max)

\* C6: limit_distance returns the zero vector when distance <= EPSILON, whatever
\* min and max; otherwise -offset/distance * (distance - min), of magnitude
\* min - distance, when distance < min; -offset/distance * (distance - max), of
\* magnitude distance - max, when distance > max; and the zero vector when
\* min <= distance <= max.  With min = 1, max = 2: separation 1/2 gives magnitude
\* 1/2, separation 3/2 gives zero, separation 3 gives magnitude 1.
C6_LimitDistance ==
    (Called /\ jargs.op = "limit_distance") =>
      LET o == OffsetOf(jargs)
          d == VLength(o)
          min == jargs.min
          max == jargs.max
          unit == VDivS(VNeg(o), d)
          zero == VZero(Dim(feature))
      IN  /\ RLe(d, EPSILON) => jres = zero
          /\ (RGt(d, EPSILON) /\ RLt(d, min)) =>
               (jres = VScale(unit, RSub(d, min)) /\ VLength(jres) = RSub(min, d))
          /\ (RGt(d, EPSILON) /\ RGt(d, max)) =>
               (jres = VScale(unit, RSub(d, max)) /\ VLength(jres) = RSub(d, max))
          /\ (RGt(d, EPSILON) /\ InRange(d, min, max)) => jres = zero
          /\ (min = Q(1) /\ max = Q(2)) =>
               /\ d = R(1, 2) => VLength(jres) = R(1, 2)
               /\ d = R(3, 2) => jres = zero
               /\ d = Q(3) => VLength(jres) = Q(1)

\* limit_distance was called with min = 1, max = 2 on anchors 1/2 apart along
\* (-3/5, 4/5): the correction has magnitude 1/2
C6_Witness ==
    /\ phase = "limited" /\ jargs.op = "limit_distance"
    /\ jargs.min = Q(1) /\ jargs.max = Q(2)
    /\ OffsetOf(jargs) = <<R(-3, 10), R(4, 10)>>
    /\ jargs.pos1 # VZero(2)
    /\ jres = <<R(-3, 10), R(4, 10)>>

AnglePhi == limit_angle_phi(jargs.n, jargs.n1, jargs.n2)
AngleDecision ==
    /\ (jres.kind = "None") <=> InRange(AnglePhi, jargs.alpha, jargs.beta)
    /\ (jres.kind = "Some") <=> (RLt(AnglePhi, jargs.alpha) \/ RGt(AnglePhi, jargs.beta))
    /\ (jres.kind = "Some") =>
          RLe(VLen2(jres.value), RMul(jargs.max_correction, jargs.max_correction))

UnitAxis == VLen2(jargs.axis) = One

====
